---- MODULE Spec2Model ----
(***************************************************************************)
(* The in-memory note server of main.go: the mux of Start, the handlers    *)
(* notesHandler/noteHandler and their store operations on the map `notes`  *)
(* under the mutex `mu`, the renderer WriteHTML and the fallback wrapper   *)
(* makeHTMLHandlerFunc.  One goroutine serves one request.  A step of a    *)
(* goroutine is one reading of the clock, one access to the map together   *)
(* with the Lock before it and the Unlock right after it, or the writing   *)
(* of one response part (by the handler, by the wrapper).  Strings that    *)
(* the code splits, formats or concatenates (paths, ids, redirect targets) *)
(* are sequences of one-character strings.                                 *)
(***************************************************************************)
EXTENDS Integers, Sequences, FiniteSets, TLC

\* ---------------------------------------------------------------- bounds
\* the earliest reading the wall clock gives in a run, and how many later
\* ones there are
ClockStart == 9
ClockTicks == 1
MaxClock == ClockStart + ClockTicks
\* what time.Now() may return: the wall clock can stand still between two
\* readings, move on, or be set back
ClockReadings == ClockStart..MaxClock
\* requests the server accepts in one run
MaxRequests == 3

Workers == {"g1", "g2"}
None == "none"

\* ------------------------------------------------------------ strings
Digits == <<"0", "1", "2", "3", "4", "5", "6", "7", "8", "9">>

RECURSIVE FormatInt(_)
\* fmt.Sprintf("%d", n) for n >= 0
FormatInt(n) ==
    IF n < 10 THEN <<Digits[n + 1]>>
    ELSE FormatInt(n \div 10) \o <<Digits[(n % 10) + 1]>>

RECURSIVE SplitFrom(_, _, _, _)
SplitFrom(s, i, cur, acc) ==
    IF i > Len(s) THEN Append(acc, cur)
    ELSE IF s[i] = "/" THEN SplitFrom(s, i + 1, <<>>, Append(acc, cur))
    ELSE SplitFrom(s, i + 1, Append(cur, s[i]), acc)

\* strings.Split(path, "/")
Split(s) == SplitFrom(s, 1, <<>>, <<>>)

\* parts[2] of the split path, "" when there is none
extractID(path) ==
    LET parts == Split(path)
    IN IF Len(parts) > 2 THEN parts[3] ELSE <<>>

HasPrefix(s, p) == Len(s) >= Len(p) /\ SubSeq(s, 1, Len(p)) = p

RootPath == <<"/">>
NotesPath == <<"/", "n", "o", "t", "e", "s">>
NotePrefix == NotesPath \o <<"/">>

\* --------------------------------------------------------- requests
Methods == {"GET", "POST", "PUT", "DELETE", "PATCH"}

Payload1 == [title |-> "Hi", content |-> "World", bad |-> FALSE]
Payload2 == [title |-> "Yo", content |-> "Moon", bad |-> FALSE]
Payloads == {Payload1, Payload2}
\* a body ParseForm rejects, and no body at all
BadForm == [title |-> "", content |-> "", bad |-> TRUE]
NoForm == [title |-> "", content |-> "", bad |-> FALSE]
Forms == Payloads \cup {BadForm}

\* ids a client may ask for: every id the clock can produce
ClockIds == {FormatInt(c) : c \in ClockReadings}
RequestIds == ClockIds
RequestPaths == {RootPath, NotesPath} \cup {NotePrefix \o i : i \in RequestIds}


NoRequest == [method |-> "", path |-> <<>>, form |-> NoForm]

\* r.ParseForm() fails on a malformed body
ParseFormFails(form) == form.bad
\* r.FormValue(key)
FormValue(form, key) == form[key]

\* --------------------------------------------------------- responses
\* what the client has been sent: the committed status (0: none yet), the
\* number of WriteHeader calls made, the Location header, the body parts
EmptyResp == [status |-> 0, writes |-> 0, location |-> <<>>, body |-> <<>>]

\* http.ResponseWriter.WriteHeader: the first call commits the status, a
\* later call is superfluous and leaves it
WriteHeader(r, code) ==
    [r EXCEPT !.writes = @ + 1, !.status = IF @ = 0 THEN code ELSE @]

\* WriteHTML: WriteHeader(status), then tmpl.ExecuteTemplate, which either
\* writes the page (ok) or returns an error
WriteHTML(r, status, tmplName, ok) ==
    LET h == WriteHeader(r, status)
    IN IF ok THEN [h EXCEPT !.body = Append(@, tmplName)] ELSE h

\* the error WriteHTML returns
RenderErr(ok) == IF ok THEN "nil" ELSE "render"

\* http.Redirect: the Location header, WriteHeader(code), a short body on GET
Redirect(r, method, url, code) ==
    LET l == [r EXCEPT !.location = IF r.status = 0 THEN url ELSE @]
        h == WriteHeader(l, code)
    IN IF method = "GET" THEN [h EXCEPT !.body = Append(@, "redirect")] ELSE h

\* http.Error: WriteHeader(code), then the plain-text message
HttpError(r, msg, code) ==
    [WriteHeader(r, code) EXCEPT !.body = Append(@, msg)]

\* makeHTMLHandlerFunc, once fn has returned e after sending r: on an error
\* the error page with status 500, and the plain-text fallback when that
\* render fails too
makeHTMLHandlerFunc(r, e, ok) ==
    IF e = "nil" THEN r
    ELSE IF ok THEN WriteHTML(r, 500, "error.html", TRUE)
    ELSE HttpError(WriteHTML(r, 500, "error.html", FALSE),
                   "Internal Server Error", 500)

\* the not-found page sent with the status of a page that was found
NotFoundPageOk(r, ok) == WriteHTML(r, 200, "error.html", ok)

\* the page a handler sends for an id that is not in the store
NotFoundPage(r, ok) == WriteHTML(r, 404, "error.html", ok)

\* ------------------------------------------------------------ notes
\* the zero Note, what notes[id] yields for a missing key
ZeroNote == [ID |-> <<>>, Title |-> "", Content |-> "", Created |-> 0]

\* a Note built with the two form fields taken for each other
NewNoteSwapped(id, form, created) ==
    [ID |-> id, Title |-> FormValue(form, "content"),
     Content |-> FormValue(form, "title"), Created |-> created]

\* the Note createNote builds
NewNote(id, form, created) ==
    [ID |-> id, Title |-> FormValue(form, "title"),
     Content |-> FormValue(form, "content"), Created |-> created]

\* the Note updateNote stores over the one it read
UpdatedNote(id, form, old) ==
    [ID |-> id, Title |-> FormValue(form, "title"),
     Content |-> FormValue(form, "content"), Created |-> old.Created]

\* notes[id] = n
Put(m, id, n) == [k \in DOMAIN m \cup {id} |-> IF k = id THEN n ELSE m[k]]

\* a delete that removes nothing
DeleteKeyNoop(m, id) == m

\* delete(notes, id)
DeleteKey(m, id) == [k \in DOMAIN m \ {id} |-> m[k]]

\* a function without the key k
Without(f, k) == [x \in DOMAIN f \ {k} |-> f[x]]

\* ----------------------------------------------------------- routing
\* the mux of Start: "/notes" exactly, the subtree "/notes/", and "/" for
\* every other path
Mux(path) ==
    IF path = NotesPath THEN "notesHandler"
    ELSE IF HasPrefix(path, NotePrefix) THEN "noteHandler"
    ELSE "indexHandler"

notesHandler(method) ==
    IF method = "GET" THEN "listNotes"
    ELSE IF method = "POST" THEN "createNote"
    ELSE "unsupported"

\* a dispatch that also sends POST to updateNote
noteHandlerPost(method) ==
    IF method = "GET" THEN "getNote"
    ELSE IF method \in {"PUT", "POST"} THEN "updateNote"
    ELSE IF method = "DELETE" THEN "deleteNote"
    ELSE "unsupported"

noteHandler(method) ==
    IF method = "GET" THEN "getNote"
    ELSE IF method = "PUT" THEN "updateNote"
    ELSE IF method = "DELETE" THEN "deleteNote"
    ELSE "unsupported"

\* the function that ends up serving a request
Route(r) ==
    CASE Mux(r.path) = "notesHandler" -> notesHandler(r.method)
      [] Mux(r.path) = "noteHandler" -> noteHandler(r.method)
      [] OTHER -> "indexHandler"

\* the requests clients send: a body only where the serving function reads
\* one, a malformed body only where its parse error is looked at (PUT), GET
\* alone on the index page
Requests ==
    {r \in [method : Methods, path : RequestPaths, form : Forms \cup {NoForm}] :
        /\ (r.form # NoForm) = (Route(r) \in {"createNote", "updateNote"})
        /\ (r.form = BadForm) => (r.method = "PUT")
        /\ (r.path = RootPath) => (r.method = "GET")}

\* mu freed right after the lookup
muAfterLookupUnlocked(w) == None

\* the value mu has between updateNote's lookup and its store: the unlock
\* is deferred to the return
muAfterLookup(w) == w

\* where each served function starts
FirstPc(h) ==
    CASE h = "indexHandler" -> "index_render"
      [] h = "listNotes" -> "list_render"
      [] h = "createNote" -> "create_id"
      [] h = "getNote" -> "get_read"
      [] h = "updateNote" -> "upd_check"
      [] h = "deleteNote" -> "del_check"
      [] OTHER -> "unsupported"

\* -------------------------------------------------------------- state
VARIABLES
    notes,      \* the map notes: id -> Note
    mu,         \* the goroutine holding the mutex mu, or None
    proc,       \* "running", or how a data race on the map ended the run
    served,     \* requests accepted so far
    pc,         \* where each goroutine is
    req,        \* the request it serves
    handler,    \* the function the mux and the method dispatch chose for it
    id,         \* its local id
    note,       \* its local note
    exists,     \* its local ok/exists: "unset", "yes", "no"
    resp,       \* what it has sent
    err,        \* the error its handler returned: "nil", "unsupported", "render"
    gone,       \* history: ids deleted and not stored by a create since
    lastCreate, \* history: id -> form of the create whose insert is the latest
                \*   store under id (no update or delete of id since)
    doneCreate  \* history: id -> form of the create of id that returned last
                \*   (no update or delete of id since)

shared == <<notes, mu, proc, served>>
locals == <<pc, req, handler, id, note, exists, resp, err>>
history == <<gone, lastCreate, doneCreate>>
vars == <<shared, locals, history>>

Init ==
    /\ notes = <<>>
    /\ mu = None
    /\ proc = "running"
    /\ served = 0
    /\ pc = [w \in Workers |-> "idle"]
    /\ req = [w \in Workers |-> NoRequest]
    /\ handler = [w \in Workers |-> None]
    /\ id = [w \in Workers |-> <<>>]
    /\ note = [w \in Workers |-> ZeroNote]
    /\ exists = [w \in Workers |-> "unset"]
    /\ resp = [w \in Workers |-> EmptyResp]
    /\ err = [w \in Workers |-> "nil"]
    /\ gone = {}
    /\ lastCreate = <<>>
    /\ doneCreate = <<>>

\* the server accepts a request on a fresh goroutine; the mux and the
\* wrapped handler pick the function that serves it
Serve(w) ==
    /\ proc = "running"
    /\ pc[w] \in {"idle", "done"}
    /\ served < MaxRequests
    /\ \E r \in Requests :
         /\ req' = [req EXCEPT ![w] = r]
         /\ handler' = [handler EXCEPT ![w] = Route(r)]
         /\ pc' = [pc EXCEPT ![w] = FirstPc(Route(r))]
         /\ err' = [err EXCEPT ![w] = "nil"]
    /\ served' = served + 1
    /\ id' = [id EXCEPT ![w] = <<>>]
    /\ note' = [note EXCEPT ![w] = ZeroNote]
    /\ exists' = [exists EXCEPT ![w] = "unset"]
    /\ resp' = [resp EXCEPT ![w] = EmptyResp]
    /\ UNCHANGED <<notes, mu, proc, history>>

\* fn has sent r and returns e to the wrapper: with no error the wrapper
\* has nothing to do and the goroutine ends, with one it goes on to its
\* error path.  What stays of a request that ended is the response and, as
\* history, which function served it, the id it worked on, what it found
\* and what it returned
Return(w, r, e) ==
    /\ resp' = [resp EXCEPT ![w] = r]
    /\ err' = [err EXCEPT ![w] = e]
    /\ IF e = "nil"
       THEN /\ pc' = [pc EXCEPT ![w] = "done"]
            /\ req' = [req EXCEPT ![w] = NoRequest]
       ELSE /\ pc' = [pc EXCEPT ![w] = "wrap"]
            /\ UNCHANGED req

\* makeHTMLHandlerFunc with the error fn returned: the error page with
\* status 500, http.Error when rendering it fails
makeHTMLHandlerFuncErr(w) ==
    /\ proc = "running"
    /\ pc[w] = "wrap"
    /\ \E ok \in BOOLEAN :
         resp' = [resp EXCEPT ![w] = makeHTMLHandlerFunc(@, err[w], ok)]
    /\ pc' = [pc EXCEPT ![w] = "done"]
    /\ req' = [req EXCEPT ![w] = NoRequest]
    /\ UNCHANGED <<shared, handler, id, note, exists, err, history>>

\* notesHandler and noteHandler on a method they do not serve
unsupportedMethod(w) ==
    /\ proc = "running"
    /\ pc[w] = "unsupported"
    /\ Return(w, resp[w], "unsupported")
    /\ UNCHANGED <<shared, handler, id, note, exists, history>>

\* indexHandler
indexHandler(w) ==
    /\ proc = "running"
    /\ pc[w] = "index_render"
    /\ \E ok \in BOOLEAN :
         Return(w, WriteHTML(resp[w], 200, "index.html", ok), RenderErr(ok))
    /\ UNCHANGED <<shared, handler, id, note, exists, history>>

\* listNotes: mu.Lock(), list.html rendered from the map, the deferred
\* mu.Unlock()
listNotes(w) ==
    /\ proc = "running"
    /\ pc[w] = "list_render"
    /\ mu = None
    /\ \E ok \in BOOLEAN :
         Return(w, WriteHTML(resp[w], 200, "list.html", ok), RenderErr(ok))
    /\ UNCHANGED <<shared, handler, id, note, exists, history>>

\* createNote: ParseForm (its error dropped), the id from a reading of the
\* clock
createNoteId(w) ==
    /\ proc = "running"
    /\ pc[w] = "create_id"
    /\ \E t \in ClockReadings : id' = [id EXCEPT ![w] = FormatInt(t)]
    /\ pc' = [pc EXCEPT ![w] = "create_build"]
    /\ UNCHANGED <<shared, req, handler, note, exists, resp, err, history>>

\* createNote: the Note, with Created from a second reading of the clock
createNoteBuild(w) ==
    /\ proc = "running"
    /\ pc[w] = "create_build"
    /\ \E c \in ClockReadings :
         note' = [note EXCEPT ![w] = NewNote(id[w], req[w].form, c)]
    /\ pc' = [pc EXCEPT ![w] = "create_store"]
    /\ UNCHANGED <<shared, req, handler, id, exists, resp, err, history>>

\* createNote: notes[id] = note, with mu not taken
createNoteStore(w) ==
    /\ proc = "running"
    /\ pc[w] = "create_store"
    /\ notes' = Put(notes, id[w], note[w])
    /\ gone' = gone \ {id[w]}
    /\ lastCreate' = Put(lastCreate, id[w], req[w].form)
    /\ pc' = [pc EXCEPT ![w] = "create_redirect"]
    /\ UNCHANGED <<mu, proc, served, req, handler, id, note, exists, resp, err,
                   doneCreate>>

\* createNote: the redirect to "/"
createNoteRedirect(w) ==
    /\ proc = "running"
    /\ pc[w] = "create_redirect"
    /\ resp' = [resp EXCEPT ![w] = Redirect(@, req[w].method, RootPath, 302)]
    /\ pc' = [pc EXCEPT ![w] = "create_render"]
    /\ UNCHANGED <<shared, req, handler, id, note, exists, err, history>>

\* createNote: view.html rendered from the whole map, with mu not taken
createNoteRender(w) ==
    /\ proc = "running"
    /\ pc[w] = "create_render"
    /\ \E ok \in BOOLEAN :
         Return(w, WriteHTML(resp[w], 200, "view.html", ok), RenderErr(ok))
    /\ doneCreate' = IF id[w] \in DOMAIN lastCreate
                     THEN Put(doneCreate, id[w], req[w].form)
                     ELSE doneCreate
    /\ note' = [note EXCEPT ![w] = ZeroNote]
    /\ UNCHANGED <<shared, handler, id, exists, gone, lastCreate>>

\* getNote: extractID; mu.Lock(); note, ok := notes[id]; mu.Unlock()
getNoteLookup(w) ==
    /\ proc = "running"
    /\ pc[w] = "get_read"
    /\ mu = None
    /\ LET i == extractID(req[w].path)
           ok == i \in DOMAIN notes
       IN /\ id' = [id EXCEPT ![w] = i]
          /\ note' = [note EXCEPT ![w] = IF ok THEN notes[i] ELSE ZeroNote]
          /\ exists' = [exists EXCEPT ![w] = IF ok THEN "yes" ELSE "no"]
    /\ pc' = [pc EXCEPT ![w] = "get_render"]
    /\ UNCHANGED <<shared, req, handler, resp, err, history>>

\* getNote: the not-found page, or view.html rendered from the copy of the
\* note (which stays in note[w] as the data the page was rendered from)
getNoteRender(w) ==
    /\ proc = "running"
    /\ pc[w] = "get_render"
    /\ \E ok \in BOOLEAN :
         Return(w,
                IF exists[w] = "yes"
                THEN WriteHTML(resp[w], 200, "view.html", ok)
                ELSE NotFoundPage(resp[w], ok),
                RenderErr(ok))
    /\ UNCHANGED <<shared, handler, id, note, exists, history>>

\* updateNote: extractID; mu.Lock(), held until the function returns;
\* note, exists := notes[id]; when the note is there, ParseForm
updateNoteCheck(w) ==
    /\ proc = "running"
    /\ pc[w] = "upd_check"
    /\ mu = None
    /\ mu' = muAfterLookup(w)
    /\ LET i == extractID(req[w].path)
       IN /\ id' = [id EXCEPT ![w] = i]
          /\ IF i \notin DOMAIN notes
             THEN /\ exists' = [exists EXCEPT ![w] = "no"]
                  /\ pc' = [pc EXCEPT ![w] = "upd_miss"]
                  /\ UNCHANGED note
             ELSE /\ exists' = [exists EXCEPT ![w] = "yes"]
                  /\ IF ParseFormFails(req[w].form)
                     THEN /\ pc' = [pc EXCEPT ![w] = "upd_badform"]
                          /\ UNCHANGED note
                     ELSE /\ pc' = [pc EXCEPT ![w] = "upd_store"]
                          /\ note' = [note EXCEPT ![w] = notes[i]]
    /\ UNCHANGED <<notes, proc, served, req, handler, resp, err, history>>

\* updateNote: the not-found page, the deferred mu.Unlock()
updateNoteMiss(w) ==
    /\ proc = "running"
    /\ pc[w] = "upd_miss"
    /\ \E ok \in BOOLEAN :
         Return(w, NotFoundPage(resp[w], ok), RenderErr(ok))
    /\ mu' = IF mu = w THEN None ELSE mu
    /\ UNCHANGED <<notes, proc, served, handler, id, note, exists, history>>

\* updateNote: the error page for a form that does not parse, the deferred
\* mu.Unlock()
updateNoteBadForm(w) ==
    /\ proc = "running"
    /\ pc[w] = "upd_badform"
    /\ \E ok \in BOOLEAN :
         Return(w, WriteHTML(resp[w], 500, "error.html", ok), RenderErr(ok))
    /\ mu' = IF mu = w THEN None ELSE mu
    /\ UNCHANGED <<notes, proc, served, handler, id, note, exists, history>>

\* updateNote: the Note stored over the old one
updateNoteStore(w) ==
    /\ proc = "running"
    /\ pc[w] = "upd_store"
    /\ notes' = Put(notes, id[w], UpdatedNote(id[w], req[w].form, note[w]))
    /\ lastCreate' = Without(lastCreate, id[w])
    /\ doneCreate' = Without(doneCreate, id[w])
    /\ note' = [note EXCEPT ![w] = ZeroNote]
    /\ pc' = [pc EXCEPT ![w] = "upd_redirect"]
    /\ UNCHANGED <<mu, proc, served, req, handler, id, exists, resp, err,
                   gone>>

\* updateNote: the redirect to the note, the deferred mu.Unlock()
updateNoteRedirect(w) ==
    /\ proc = "running"
    /\ pc[w] = "upd_redirect"
    /\ Return(w, Redirect(resp[w], req[w].method, NotePrefix \o id[w], 302), "nil")
    /\ mu' = IF mu = w THEN None ELSE mu
    /\ UNCHANGED <<notes, proc, served, handler, id, note, exists, history>>

\* deleteNote: extractID; mu.Lock(); _, exists := notes[id]; mu.Unlock()
\* when the note is missing
deleteNoteCheck(w) ==
    /\ proc = "running"
    /\ pc[w] = "del_check"
    /\ mu = None
    /\ LET i == extractID(req[w].path)
       IN /\ id' = [id EXCEPT ![w] = i]
          /\ IF i \notin DOMAIN notes
             THEN /\ exists' = [exists EXCEPT ![w] = "no"]
                  /\ pc' = [pc EXCEPT ![w] = "del_miss"]
                  /\ mu' = None
             ELSE /\ exists' = [exists EXCEPT ![w] = "yes"]
                  /\ pc' = [pc EXCEPT ![w] = "del_delete"]
                  /\ mu' = w
    /\ UNCHANGED <<notes, proc, served, req, handler, note, resp, err, history>>

\* deleteNote: the not-found page, with mu freed
deleteNoteMiss(w) ==
    /\ proc = "running"
    /\ pc[w] = "del_miss"
    /\ \E ok \in BOOLEAN :
         Return(w, NotFoundPage(resp[w], ok), RenderErr(ok))
    /\ UNCHANGED <<shared, handler, id, note, exists, history>>

\* deleteNote: delete(notes, id); mu.Unlock()
deleteNoteDelete(w) ==
    /\ proc = "running"
    /\ pc[w] = "del_delete"
    /\ notes' = DeleteKey(notes, id[w])
    /\ mu' = None
    /\ gone' = gone \cup {id[w]}
    /\ lastCreate' = Without(lastCreate, id[w])
    /\ doneCreate' = Without(doneCreate, id[w])
    /\ pc' = [pc EXCEPT ![w] = "del_redirect"]
    /\ UNCHANGED <<proc, served, req, handler, id, note, exists, resp, err>>

\* deleteNote: the redirect to "/notes", with mu freed
deleteNoteRedirect(w) ==
    /\ proc = "running"
    /\ pc[w] = "del_redirect"
    /\ Return(w, Redirect(resp[w], req[w].method, NotesPath, 302), "nil")
    /\ UNCHANGED <<shared, handler, id, note, exists, history>>

\* pcs at which the next step of a goroutine writes, or reads, the map
WritePcs == {"create_store", "upd_store", "del_delete"}
ReadPcs == {"list_render", "create_render", "get_read", "upd_check", "del_check"}
\* those of them createNote goes through without mu: from the moment it is
\* there the access may be under way
UnlockedPcs == {"create_store", "create_render"}

\* w is about to access the map (with mu, where its code takes it) while an
\* access of another goroutine that mu does not order with it is under way,
\* one of the two being a write
Races(w) ==
    /\ pc[w] \in WritePcs \cup ReadPcs
    /\ pc[w] \in UnlockedPcs \/ mu \in {None, w}
    /\ \E v \in Workers \ {w} :
         /\ pc[v] \in UnlockedPcs
         /\ pc[w] \in WritePcs \/ pc[v] \in WritePcs

\* a data race on the map: the runtime stops the process ("fatal error:
\* concurrent map writes"), or the map is left in no defined state; when
\* neither happens the racing steps go on as written above
DataRace(w) ==
    /\ proc = "running"
    /\ Races(w)
    /\ proc' \in {"fatal", "corrupt"}
    /\ UNCHANGED <<notes, mu, served, locals, history>>

Next ==
    \/ \E w \in Workers :
         \/ Serve(w)
         \/ makeHTMLHandlerFuncErr(w)
         \/ unsupportedMethod(w)
         \/ indexHandler(w)
         \/ listNotes(w)
         \/ createNoteId(w)
         \/ createNoteBuild(w)
         \/ createNoteStore(w)
         \/ createNoteRedirect(w)
         \/ createNoteRender(w)
         \/ getNoteLookup(w)
         \/ getNoteRender(w)
         \/ updateNoteCheck(w)
         \/ updateNoteMiss(w)
         \/ updateNoteBadForm(w)
         \/ updateNoteStore(w)
         \/ updateNoteRedirect(w)
         \/ deleteNoteCheck(w)
         \/ deleteNoteMiss(w)
         \/ deleteNoteDelete(w)
         \/ deleteNoteRedirect(w)
         \/ DataRace(w)

Spec == Init /\ [][Next]_vars

\* ------------------------------------------------------------- claims
\* pcs at which a goroutine is past the point where its code would have
\* taken mu and has its access to the map still to finish
MidAccessPcs == {"create_store", "create_render", "upd_store", "del_delete"}

\* the title and content of a form, those of a note
FormPair(f) == <<f.title, f.content>>
NotePair(n) == <<n.Title, n.Content>>

\* the step of w in which getNote looks up i
GetStep(w, i) ==
    /\ pc[w] = "get_read"
    /\ pc'[w] = "get_render"
    /\ i = extractID(req[w].path)

\* the step of w in which getNote answers
GetAnswer(w) == pc[w] = "get_render" /\ pc'[w] # "get_render"

\* C1: every read and every write of the map is made by a goroutine that
\* holds mu, the insert of createNote and the reads of a render included.
C1_MapAccessUnderLock ==
    \A w \in Workers : pc[w] \in MidAccessPcs => mu = w

\* C2: between updateNote's existence check and its store mu is never
\* released, so the note is still there when it is replaced, and every
\* stored note has its Title and its Content from one and the same
\* submitted form, never one field from each of two.
C2_UpdateNeverMixes ==
    /\ \A w \in Workers :
         /\ pc[w] \in {"upd_miss", "upd_badform", "upd_store", "upd_redirect"}
              => mu = w
         /\ pc[w] = "upd_store" => id[w] \in DOMAIN notes
    /\ \A i \in DOMAIN notes : \E f \in Payloads : NotePair(notes[i]) = FormPair(f)

\* C2 witness: an update of an id went through while another update of the
\* same id, with the other form, is between its check and its store.
C2_Witness ==
    \E w, v \in Workers :
      /\ w # v
      /\ pc[w] = "done" /\ handler[w] = "updateNote" /\ resp[w].status = 302
      /\ pc[v] = "upd_store" /\ id[v] = id[w]
      /\ NotePair(notes[id[v]]) # FormPair(req[v].form)
      /\ id[v] \notin DOMAIN lastCreate

\* C3: every stored note has its key as ID, and the store of an update
\* changes only Title and Content: the note it leaves under the id has the
\* Created and the ID of the note that was stored there, the Title and
\* Content of the form, and no other entry changes.
C3_UpdatePreservesCreated ==
    [][ /\ \A i \in DOMAIN notes' : notes'[i].ID = i
        /\ \A w \in Workers :
             (pc[w] = "upd_store" /\ pc'[w] = "upd_redirect") =>
                /\ DOMAIN notes' = DOMAIN notes
                /\ notes'[id[w]].Created = notes[id[w]].Created
                /\ notes'[id[w]].ID = notes[id[w]].ID
                /\ NotePair(notes'[id[w]]) = FormPair(req[w].form)
                /\ \A k \in DOMAIN notes \ {id[w]} : notes'[k] = notes[k]
      ]_vars

\* C4 as stated: once a create of an id has returned, a view that looks
\* the id up, with no update or delete of it since the create stored its
\* note, finds a note with the title and content of that create, and a
\* view that found a note answers 200 from it.
C4_ViewAfterCompletedCreate ==
    [][ /\ \A w \in Workers : \A i \in DOMAIN doneCreate :
             GetStep(w, i) =>
                /\ exists'[w] = "yes"
                /\ NotePair(note'[w]) = FormPair(doneCreate[i])
        /\ \A w \in Workers :
             (GetAnswer(w) /\ exists[w] = "yes") =>
                resp'[w].status = 200 /\ note'[w] = note[w]
      ]_vars

\* C4 amended: once a create has stored its note under an id, a view that
\* looks the id up, with no update or delete of it and no store of another
\* create under it since, finds the note with the title and content of
\* that create, and a view that found a note answers 200 from it.
C4_ViewAfterLastCreate ==
    [][ /\ \A w \in Workers : \A i \in DOMAIN lastCreate :
             GetStep(w, i) =>
                /\ exists'[w] = "yes"
                /\ note'[w].ID = i
                /\ NotePair(note'[w]) = FormPair(lastCreate[i])
        /\ \A w \in Workers :
             (GetAnswer(w) /\ exists[w] = "yes") =>
                /\ resp'[w].status = 200
                /\ note'[w] = note[w]
                /\ pc'[w] = "done" => resp'[w].body = <<"view.html">>
      ]_vars

\* C4 witness: a view answered 200 from the note a completed create of
\* title "Hi" and content "World" had stored.
C4_Witness ==
    \E w, v \in Workers :
      /\ pc[w] = "done" /\ handler[w] = "getNote" /\ resp[w].status = 200
      /\ pc[v] = "done" /\ handler[v] = "createNote" /\ id[v] = id[w]
      /\ id[w] \in DOMAIN lastCreate /\ lastCreate[id[w]] = Payload1
      /\ note[w].Title = "Hi" /\ note[w].Content = "World"

\* C5: the delete of a stored id removes that entry and no other and then
\* redirects with 302 to /notes; from the removal on, until a create stores
\* under the id again, the id is not in the map, every view that looks it
\* up misses, and a view that missed answers 404.
C5_DeleteThenNotFound ==
    [][ /\ \A w \in Workers :
             (pc[w] = "del_delete" /\ pc'[w] # "del_delete") =>
                /\ id[w] \in DOMAIN notes
                /\ DOMAIN notes' = DOMAIN notes \ {id[w]}
                /\ \A k \in DOMAIN notes' : notes'[k] = notes[k]
                /\ pc'[w] = "del_redirect"
        /\ \A w \in Workers :
             (pc[w] = "del_redirect" /\ pc'[w] # "del_redirect") =>
                /\ pc'[w] = "done"
                /\ resp'[w].status = 302
                /\ resp'[w].location = NotesPath
                /\ notes' = notes
        /\ \A i \in gone' : i \notin DOMAIN notes'
        /\ \A w \in Workers : \A i \in gone :
             GetStep(w, i) => exists'[w] = "no"
        /\ \A w \in Workers :
             (GetAnswer(w) /\ exists[w] = "no") => resp'[w].status = 404
      ]_vars

\* C5 witness: a delete was answered 302 to /notes, another note is still
\* stored, and a later view of the deleted id was answered 404.
C5_Witness ==
    \E w, v \in Workers :
      /\ pc[v] = "done" /\ handler[v] = "deleteNote"
      /\ resp[v].status = 302 /\ resp[v].location = NotesPath
      /\ pc[w] = "done" /\ handler[w] = "getNote" /\ id[w] = id[v]
      /\ id[w] \in gone
      /\ resp[w].status = 404

\* C6: an update or a delete of an id that is not stored answers 404 and
\* leaves the map as it is, each time it is sent.
C6_MissingIdLeavesStore ==
    [][ /\ \A w \in Workers :
             (pc[w] \in {"upd_check", "del_check"} /\ exists'[w] = "no") =>
                /\ notes' = notes
                /\ pc'[w] \in {"upd_miss", "del_miss"}
        /\ \A w \in Workers :
             (pc[w] \in {"upd_miss", "del_miss"} /\ pc'[w] # pc[w]) =>
                /\ notes' = notes
                /\ resp'[w].status = 404
      ]_vars

\* C6 witness: with a note stored, an update and a delete of an id that is
\* not stored have both been answered 404.
C6_Witness ==
    \E w, v \in Workers :
      /\ pc[w] = "done" /\ handler[w] = "updateNote" /\ exists[w] = "no"
      /\ resp[w].status = 404
      /\ pc[v] = "done" /\ handler[v] = "deleteNote" /\ exists[v] = "no"
      /\ resp[v].status = 404
      /\ id[w] = id[v]
      /\ notes # <<>>

\* what C7 says /notes/{id} does with a method
C7_StatedDispatch(m) ==
    CASE m = "GET" -> "getNote"
      [] m \in {"PUT", "POST"} -> "updateNote"
      [] m = "DELETE" -> "deleteNote"
      [] OTHER -> "unsupported"

\* what it does once POST is taken out of the methods that update
C7_AmendedDispatch(m) ==
    CASE m = "GET" -> "getNote"
      [] m = "PUT" -> "updateNote"
      [] m = "DELETE" -> "deleteNote"
      [] OTHER -> "unsupported"

\* C7 as stated: on /notes/{id} GET goes to view, PUT and POST to update,
\* DELETE to delete, any other method fails as unsupported.
C7_PostUpdates ==
    \A w \in Workers :
      (pc[w] \notin {"idle", "done"} /\ Mux(req[w].path) = "noteHandler") =>
         handler[w] = C7_StatedDispatch(req[w].method)

\* C7 amended: on /notes/{id} GET goes to view, PUT alone to update, DELETE
\* to delete; any other method, POST included, fails as unsupported, and
\* that failure neither reads nor writes the map nor takes mu.
C7_PostUnsupported ==
    [][ /\ \A w \in Workers :
             (pc'[w] \notin {"idle", "done"} /\ Mux(req'[w].path) = "noteHandler") =>
                handler'[w] = C7_AmendedDispatch(req'[w].method)
        /\ \A w \in Workers :
             (handler[w] = "unsupported" /\ pc[w] \notin {"idle", "done"}
                 /\ pc'[w] # pc[w]) =>
                /\ err'[w] = "unsupported"
                /\ notes' = notes
                /\ mu' = mu
      ]_vars

\* C7 witness: a POST to /notes/{id} of a stored note is about to fail as
\* unsupported.
C7_Witness ==
    \E w \in Workers :
      /\ pc[w] = "unsupported"
      /\ req[w].method = "POST"
      /\ Mux(req[w].path) = "noteHandler"
      /\ extractID(req[w].path) \in DOMAIN notes

\* C8: whenever the handler returned a failure to the wrapper, the client
\* has received status 500.
C8_FailureAnswers500 ==
    \A w \in Workers :
      (pc[w] = "done" /\ err[w] # "nil") => resp[w].status = 500

\* C9: a view, update or delete of an id that is not stored answers 404
\* and returns no failure, so the wrapper's error path is never entered.
C9_NotFoundReturnsNoFailure ==
    \A w \in Workers :
      (pc[w] = "done" /\ exists[w] = "no") =>
         resp[w].status = 404 /\ err[w] = "nil"

\* C10: no request has its status written more than once; a create commits
\* the 302 to "/" and nothing writes a status after it.
C10_StatusWrittenOnce ==
    \A w \in Workers :
      /\ resp[w].writes <= 1
      /\ (pc[w] = "done" /\ handler[w] = "createNote") =>
            resp[w].status = 302 /\ resp[w].location = RootPath

====
